---- MODULE Spec2Model ----
(***************************************************************************)
(* A model of the content generator of ai-trilingual-coach                 *)
(* (src/worker_lang.py): the text extractor, the schema validator and the  *)
(* retry loop of AIContentGenerator.generate_daily_content.                *)
(*                                                                         *)
(* Text is a sequence of symbols.  A symbol is one character that the code *)
(* treats specially ("{", ",", a quotation mark, a dot, ...) or an atom: a *)
(* run of word characters (a key name, a digit) or one of the two sentinel *)
(* markers.  No atom is a substring of another one.                        *)
(***************************************************************************)
EXTENDS Integers, Sequences, FiniteSets, TLC

----------------------------------------------------------------------------
(* Symbols *)

DQ == "\""
SQ == "'"
LDQ == "LEFT_DOUBLE_QUOTATION_MARK"
RDQ == "RIGHT_DOUBLE_QUOTATION_MARK"
LSQ == "LEFT_SINGLE_QUOTATION_MARK"
RSQ == "RIGHT_SINGLE_QUOTATION_MARK"
DOT == "."
ELLIPSIS == "HORIZONTAL_ELLIPSIS"
FENCE == "TRIPLE_BACKTICK"
CTRL == "\\x01"
NL == "\n"
SP == " "

start_marker == "<<<JSON_START>>>"
end_marker == "<<<JSON_END>>>"

Digits == {"0", "1"}
DigitValue(c) == IF c = "0" THEN 0 ELSE 1
Words == {"theme", "vocabulary_focus", "practice_scenarios", "quiz_toggle",
          "concept", "expressions", "question", "answer",
          "json", "Here", "true", "false", "null"}
WordChars == Words \cup Digits
Whitespace == {SP, NL}

----------------------------------------------------------------------------
(* Python values: None and the values json.loads produces.  json.loads     *)
(* maps the JSON null to None, the value the extractor also returns on     *)
(* failure.  An object is a function from keys (symbol sequences) to       *)
(* values, an array a sequence of values, a string a symbol sequence.      *)

None == [t |-> "null"]
JBool(b) == [t |-> "bool", v |-> b]
JNum(n) == [t |-> "num", v |-> n]
JStr(s) == [t |-> "str", v |-> s]
JArr(a) == [t |-> "arr", v |-> a]
JObj(f) == [t |-> "obj", v |-> f]

\* Python truth value of a value (bool(x)), as used by "if data:",
\* "if not data:" and "if not response_text:".
Truthy(x) ==
    CASE x.t = "null" -> FALSE
      [] x.t = "bool" -> x.v
      [] x.t = "num" -> x.v # 0
      [] x.t = "str" -> Len(x.v) > 0
      [] x.t = "arr" -> Len(x.v) > 0
      [] x.t = "obj" -> DOMAIN x.v # {}
      [] OTHER -> TRUE

----------------------------------------------------------------------------
(* json.loads on a symbol sequence *)

RECURSIVE SkipWs(_, _)
SkipWs(s, i) ==
    IF i <= Len(s) /\ s[i] \in Whitespace THEN SkipWs(s, i + 1) ELSE i

ParseFail == [ok |-> FALSE, val |-> None, pos |-> 0]
ParseOk(v, p) == [ok |-> TRUE, val |-> v, pos |-> p]

\* index of the first occurrence of symbol c in s at or after i, 0 if none
RECURSIVE FindFrom(_, _, _)
FindFrom(s, c, i) ==
    IF i > Len(s) THEN 0
    ELSE IF s[i] = c THEN i
    ELSE FindFrom(s, c, i + 1)

\* a JSON string starting at the quotation mark s[i]; a raw control
\* character (here: a newline) inside a string is rejected (strict mode)
ParseString(s, i) ==
    LET j == FindFrom(s, DQ, i + 1) IN
    IF j = 0 THEN ParseFail
    ELSE LET body == SubSeq(s, i + 1, j - 1) IN
         IF \E k \in 1..Len(body) : body[k] \in {NL, CTRL} THEN ParseFail
         ELSE ParseOk(JStr(body), j + 1)

\* a JSON integer: "0", or a run of digits not starting with "0"
RECURSIVE ParseDigits(_, _, _)
ParseDigits(s, i, acc) ==
    IF i <= Len(s) /\ s[i] \in Digits
    THEN ParseDigits(s, i + 1, 10 * acc + DigitValue(s[i]))
    ELSE ParseOk(JNum(acc), i)

ParseNumber(s, i) ==
    IF s[i] = "0" THEN ParseOk(JNum(0), i + 1) ELSE ParseDigits(s, i, 0)

RECURSIVE ParseValue(_, _)
RECURSIVE ParseMembers(_, _, _)
RECURSIVE ParseElements(_, _, _)

\* after "{" and, later, after each ",": "key" : value, then "," or "}"
ParseMembers(s, i, acc) ==
    LET k == SkipWs(s, i) IN
    IF k > Len(s) \/ s[k] # DQ THEN ParseFail
    ELSE LET key == ParseString(s, k) IN
         IF ~key.ok THEN ParseFail
         ELSE LET c == SkipWs(s, key.pos) IN
              IF c > Len(s) \/ s[c] # ":" THEN ParseFail
              ELSE LET val == ParseValue(s, SkipWs(s, c + 1)) IN
                   IF ~val.ok THEN ParseFail
                   ELSE LET d == SkipWs(s, val.pos)
                            \* a repeated key keeps its last value
                            next == [x \in (DOMAIN acc) \cup {key.val.v} |->
                                       IF x = key.val.v THEN val.val ELSE acc[x]]
                        IN IF d > Len(s) THEN ParseFail
                           ELSE IF s[d] = "}" THEN ParseOk(JObj(next), d + 1)
                           ELSE IF s[d] = "," THEN ParseMembers(s, d + 1, next)
                           ELSE ParseFail

\* after "[" and, later, after each ",": value, then "," or "]"
ParseElements(s, i, acc) ==
    LET val == ParseValue(s, SkipWs(s, i)) IN
    IF ~val.ok THEN ParseFail
    ELSE LET d == SkipWs(s, val.pos)
             next == Append(acc, val.val)
         IN IF d > Len(s) THEN ParseFail
            ELSE IF s[d] = "]" THEN ParseOk(JArr(next), d + 1)
            ELSE IF s[d] = "," THEN ParseElements(s, d + 1, next)
            ELSE ParseFail

ParseValue(s, i) ==
    IF i > Len(s) THEN ParseFail
    ELSE CASE s[i] = DQ -> ParseString(s, i)
           [] s[i] = "{" ->
                LET k == SkipWs(s, i + 1) IN
                IF k <= Len(s) /\ s[k] = "}" THEN ParseOk(JObj(<<>>), k + 1)
                ELSE ParseMembers(s, i + 1, <<>>)
           [] s[i] = "[" ->
                LET k == SkipWs(s, i + 1) IN
                IF k <= Len(s) /\ s[k] = "]" THEN ParseOk(JArr(<<>>), k + 1)
                ELSE ParseElements(s, i + 1, <<>>)
           [] s[i] \in Digits -> ParseNumber(s, i)
           [] s[i] = "true" -> ParseOk(JBool(TRUE), i + 1)
           [] s[i] = "false" -> ParseOk(JBool(FALSE), i + 1)
           [] s[i] = "null" -> ParseOk(None, i + 1)
           [] OTHER -> ParseFail

\* json.loads(s): leading and trailing whitespace is skipped; anything else
\* after the value is an error ("Extra data").  ok = FALSE is JSONDecodeError.
json_loads(s) ==
    LET r == ParseValue(s, SkipWs(s, 1)) IN
    IF ~r.ok THEN ParseFail
    ELSE IF SkipWs(s, r.pos) <= Len(s) THEN ParseFail
    ELSE r

----------------------------------------------------------------------------
(* _clean_json_text, one definition per statement *)

\* re.sub(FENCE \w*\n?, ""): a fence, the word characters after it and one
\* newline after those are removed
RECURSIVE SkipWord(_, _)
SkipWord(s, i) ==
    IF i <= Len(s) /\ s[i] \in WordChars THEN SkipWord(s, i + 1) ELSE i

RECURSIVE StripFences(_, _)
StripFences(s, i) ==
    IF i > Len(s) THEN <<>>
    ELSE IF s[i] = FENCE
         THEN LET w == SkipWord(s, i + 1)
                  n == IF w <= Len(s) /\ s[w] = NL THEN w + 1 ELSE w
              IN StripFences(s, n)
         ELSE <<s[i]>> \o StripFences(s, i + 1)

\* str.replace(old, new) for a one-symbol old
ReplaceSym(s, old, new) == [i \in 1..Len(s) |-> IF s[i] = old THEN new ELSE s[i]]
RemoveSym(s, old) == SelectSeq(s, LAMBDA c : c # old)

\* mutant: the closing double quotation mark is left as it is
NormalizeOpeningQuotes(s) ==
    LET double == ReplaceSym(ReplaceSym(s, LDQ, DQ), LDQ, DQ)
    IN ReplaceSym(ReplaceSym(double, RSQ, SQ), LSQ, SQ)

NormalizeQuotes(s) ==
    LET double == ReplaceSym(ReplaceSym(ReplaceSym(s, LDQ, DQ), RDQ, DQ), LDQ, DQ)
    IN ReplaceSym(ReplaceSym(double, RSQ, SQ), LSQ, SQ)

\* str.replace("...", ""): left to right, non-overlapping, one pass
RECURSIVE RemoveThreeDots(_, _)
RemoveThreeDots(s, i) ==
    IF i > Len(s) THEN <<>>
    ELSE IF i + 2 <= Len(s) /\ s[i] = DOT /\ s[i + 1] = DOT /\ s[i + 2] = DOT
         THEN RemoveThreeDots(s, i + 3)
         ELSE <<s[i]>> \o RemoveThreeDots(s, i + 1)

RemoveEllipses(s) == RemoveSym(RemoveThreeDots(s, 1), ELLIPSIS)

\* re.sub(",(\s*[}\]])", "\1"): a comma followed by whitespace and a closer
\* is dropped, the whitespace and the closer are kept
RECURSIVE RemoveTrailingCommas(_, _)
RemoveTrailingCommas(s, i) ==
    IF i > Len(s) THEN <<>>
    ELSE LET k == SkipWs(s, i + 1) IN
         IF s[i] = "," /\ k <= Len(s) /\ s[k] \in {"}", "]"}
         THEN SubSeq(s, i + 1, k) \o RemoveTrailingCommas(s, k + 1)
         ELSE <<s[i]>> \o RemoveTrailingCommas(s, i + 1)

RemoveControlChars(s) == RemoveSym(s, CTRL)

\* str.count(c)
Count(s, c) == Cardinality({i \in 1..Len(s) : s[i] = c})

Repeat(c, n) == [i \in 1..n |-> c]

BalanceBraces(s) ==
    LET open_braces == Count(s, "{")
        close_braces == Count(s, "}")
    IN IF open_braces > close_braces
       THEN s \o Repeat("}", open_braces - close_braces) ELSE s

BalanceBrackets(s) ==
    LET open_brackets == Count(s, "[")
        close_brackets == Count(s, "]")
    IN IF open_brackets > close_brackets
       THEN s \o Repeat("]", open_brackets - close_brackets) ELSE s

\* str.strip()
RECURSIVE RStrip(_)
RStrip(s) ==
    IF Len(s) > 0 /\ s[Len(s)] \in Whitespace THEN RStrip(SubSeq(s, 1, Len(s) - 1)) ELSE s
Strip(s) == LET r == RStrip(s) IN SubSeq(r, SkipWs(r, 1), Len(r))

_clean_json_text(json_text) ==
    Strip(BalanceBrackets(BalanceBraces(RemoveControlChars(
        RemoveTrailingCommas(RemoveEllipses(NormalizeQuotes(
            RemoveSym(StripFences(json_text, 1), FENCE))), 1)))))

----------------------------------------------------------------------------
(* extract_json_from_response *)

\* index of the last occurrence of symbol c in s, 0 if none (str.rfind)
RFind(s, c) ==
    LET at == {i \in 1..Len(s) : s[i] = c} IN
    IF at = {} THEN 0 ELSE CHOOSE i \in at : \A j \in at : j <= i

\* mutant: markers in the wrong order count as absent
CandidateInOrder(response_text) ==
    LET s1 == FindFrom(response_text, start_marker, 1)
        e1 == FindFrom(response_text, end_marker, 1)
        s2 == FindFrom(response_text, "{", 1)
        e2 == RFind(response_text, "}")
    IN IF s1 # 0 /\ e1 # 0 /\ s1 < e1
       THEN [found |-> TRUE, text |-> Strip(SubSeq(response_text, s1 + 1, e1 - 1))]
       ELSE IF s2 = 0 \/ e2 = 0
            THEN [found |-> FALSE, text |-> <<>>]
            ELSE [found |-> TRUE, text |-> SubSeq(response_text, s2, e2)]

\* the candidate text: [found |-> FALSE] is the early "return None"
Candidate(response_text) ==
    LET s1 == FindFrom(response_text, start_marker, 1)
        e1 == FindFrom(response_text, end_marker, 1)
        s2 == FindFrom(response_text, "{", 1)
        e2 == RFind(response_text, "}")
    IN IF s1 # 0 /\ e1 # 0
       THEN [found |-> TRUE, text |-> Strip(SubSeq(response_text, s1 + 1, e1 - 1))]
       ELSE IF s2 = 0 \/ e2 = 0
            THEN [found |-> FALSE, text |-> <<>>]
            ELSE [found |-> TRUE, text |-> SubSeq(response_text, s2, e2)]

\* [ok, val]: ok = FALSE on the paths that return None without a parse
\* result (no candidate, JSONDecodeError); val is the value returned
Extracted(response_text) ==
    LET c == Candidate(response_text) IN
    IF ~c.found THEN [ok |-> FALSE, val |-> None]
    ELSE LET r == json_loads(_clean_json_text(c.text)) IN
         IF r.ok THEN [ok |-> TRUE, val |-> r.val] ELSE [ok |-> FALSE, val |-> None]

extract_json_from_response(response_text) == Extracted(response_text).val

----------------------------------------------------------------------------
(* validate_response_data: "True", "False", or the exception it raises *)

required_keys == <<"theme", "vocabulary_focus", "practice_scenarios", "quiz_toggle">>

\* Python "key in x" for a str key: "raise" is TypeError
Contains(x, key) ==
    CASE x.t = "obj" -> IF <<key>> \in DOMAIN x.v THEN "True" ELSE "False"
      [] x.t = "arr" -> IF \E i \in 1..Len(x.v) : x.v[i] = JStr(<<key>>)
                        THEN "True" ELSE "False"
      [] x.t = "str" -> IF \E i \in 1..Len(x.v) : x.v[i] = key
                        THEN "True" ELSE "False"
      [] OTHER -> "TypeError"

IsDict(x) == x.t = "obj"
IsList(x) == x.t = "arr"

\* dict.get(key, default)
Get(d, key, default) == IF <<key>> \in DOMAIN d.v THEN d.v[<<key>>] ELSE default

\* mutant: an item needs its concept only
VocabItemHasConcept(item) ==
    IsDict(item) /\ Contains(item, "concept") = "True"

VocabItemOk(item) ==
    IsDict(item) /\ Contains(item, "concept") = "True"
                 /\ Contains(item, "expressions") = "True"

QuizItemOk(item) ==
    IsDict(item) /\ Contains(item, "question") = "True"
                 /\ Contains(item, "answer") = "True"

validate_response_data(data) ==
    LET missing == {i \in 1..Len(required_keys) : Contains(data, required_keys[i]) # "True"}
        first == CHOOSE i \in missing : \A j \in missing : i <= j
    IN IF missing # {}
       THEN Contains(data, required_keys[first])
       ELSE IF ~IsDict(data) THEN "AttributeError"
       ELSE LET vocab == Get(data, "vocabulary_focus", JArr(<<>>))
                quiz == Get(data, "quiz_toggle", JArr(<<>>))
            IN IF ~IsList(vocab) \/ Len(vocab.v) = 0 THEN "False"
               ELSE IF \E i \in 1..Len(vocab.v) : ~VocabItemOk(vocab.v[i]) THEN "False"
               ELSE IF ~IsList(quiz) THEN "False"
               ELSE IF \E i \in 1..Len(quiz.v) : ~QuizItemOk(quiz.v[i]) THEN "False"
               ELSE "True"

----------------------------------------------------------------------------
(* The model service: what one generate_content call can do *)

Raises == [raises |-> TRUE, candidates |-> <<>>]
NoCandidate == [raises |-> FALSE, candidates |-> <<>>]
\* one candidate whose content parts are the given texts
Reply(parts) == [raises |-> FALSE, candidates |-> <<parts>>]

Wrapped(json) == <<"Here", SP, start_marker, NL>> \o json \o <<NL, end_marker>>
Key(k) == <<DQ, k, DQ, ":">>

ValidHead ==
    <<"{">> \o Key("theme") \o <<DQ, "Here", DQ, ",">>
    \o Key("vocabulary_focus") \o <<"[", "{">> \o Key("concept") \o <<DQ, "Here", DQ, ",">>
    \o Key("expressions") \o <<"{", "}", "}", "]", ",">>
ValidTail ==
    Key("practice_scenarios") \o <<"{", "}", ",">> \o Key("quiz_toggle") \o <<"[", "]", "}">>
EmptyVocab ==
    <<"{">> \o Key("theme") \o <<DQ, "Here", DQ, ",">>
    \o Key("vocabulary_focus") \o <<"[", "]", ",">> \o ValidTail
KeyNames ==
    <<"[", DQ, "theme", DQ, ",", DQ, "vocabulary_focus", DQ, ",",
      DQ, "practice_scenarios", DQ, ",", DQ, "quiz_toggle", DQ, "]">>

ModelOutcomes ==
    { Raises,
      NoCandidate,
      Reply(<<>>),                                          \* the empty string
      Reply(<<<<"Here", SP, "json">>>>),                    \* prose only
      Reply(<<Wrapped(<<"{">> \o Key("theme") \o <<DQ, "Here">>)>>), \* cut inside a string
      Reply(<<Wrapped(<<"{", "}">>)>>),                     \* the empty object
      Reply(<<Wrapped(<<"{">> \o Key("theme") \o <<"1", "}">>)>>),   \* keys missing
      Reply(<<Wrapped(EmptyVocab)>>),                       \* empty vocabulary_focus
      Reply(<<Wrapped(KeyNames)>>),                         \* an array of the key names
      Reply(<<Wrapped(<<DQ, "theme", DQ>>)>>),              \* a string
      Reply(<<Wrapped(<<"1">>)>>),                          \* a number
      Reply(<<Wrapped(<<"true">>)>>),                       \* a boolean
      Reply(<<<<"Here", SP, start_marker, NL>> \o ValidHead,
              ValidTail \o <<NL, end_marker>>>>) }          \* a valid lesson, two parts

\* responses that parse to each falsy value, beside a missing response, text
\* that does not parse, and truthy values the validator rejects and accepts
FalsyOutcomes ==
    { NoCandidate,
      Reply(<<Wrapped(<<"{">> \o Key("theme") \o <<DQ, "Here">>)>>), \* cut inside a string
      Reply(<<Wrapped(<<"{", "}">>)>>),                     \* {}
      Reply(<<Wrapped(<<"[", "]">>)>>),                     \* []
      Reply(<<Wrapped(<<DQ, DQ>>)>>),                       \* ""
      Reply(<<Wrapped(<<"0">>)>>),                          \* 0
      Reply(<<Wrapped(<<"false">>)>>),                      \* false
      Reply(<<Wrapped(<<"null">>)>>),                       \* null
      Reply(<<Wrapped(<<"{">> \o Key("theme") \o <<"1", "}">>)>>),   \* keys missing
      Reply(<<Wrapped(ValidHead \o ValidTail)>>) }          \* a valid lesson

RECURSIVE Join(_)
Join(parts) == IF parts = <<>> THEN <<>> ELSE Head(parts) \o Join(Tail(parts))

\* _call_model: the response text, or None
_call_model(out) ==
    IF out.raises THEN None
    ELSE IF out.candidates = <<>> THEN None
    ELSE JStr(Join(out.candidates[1]))

----------------------------------------------------------------------------
(* Theme, prompt, and the pieces of generate_daily_content *)

THEME_ROTATION == <<"work", "life", "tech">>

theme_mapping(theme) ==
    CASE theme = "work" -> "Office Communication"
      [] theme = "life" -> "Daily Life"
      [] theme = "tech" -> "Technology & Development"
      [] OTHER -> theme

\* Python list index theme_index is 0-based
select_daily_theme(day) ==
    LET theme_index == day % Len(THEME_ROTATION)
    IN theme_mapping(THEME_ROTATION[theme_index + 1])

\* GENERATE_CONTENT_PROMPT.format(theme=..., max_vocab=...)
generate_prompt(theme) == <<"GENERATE_CONTENT_PROMPT", theme>>

Reinforcement == "Return ONLY valid JSON between <<<JSON_START>>> and <<<JSON_END>>> with no extra text."

attempts == 3
MaxDelay == 1

\* mutant: the temperature drops one attempt late
TemperatureDropsLate(attempt) == IF attempt <= 2 THEN "0.7" ELSE "0.0"

Temperature(attempt) == IF attempt = 1 THEN "0.7" ELSE "0.0"

\* mutant: the reinforcement is added to the base prompt, not accumulated
ReinforceBase(prompt) == Append(SubSeq(prompt, 1, 2), Reinforcement)

\* prompt = prompt + "\n\n" + the reinforcement
Reinforce(prompt) == Append(prompt, Reinforcement)

\* mutant: the range is one too long
LoopNextOneMore(attempt) == IF attempt <= attempts THEN "call" ELSE "post"

\* the end of one pass of "for attempt in range(1, attempts + 1)"
LoopNext(attempt) == IF attempt < attempts THEN "call" ELSE "post"

\* _save_raw_response: the path it writes, None without a directory; the
\* write itself may raise, and then None is returned
PathOf(ts) == [t |-> "path", v |-> <<"resp_", ts, ".txt">>]
SaveTarget(raw_dir, ts) == IF ~Truthy(raw_dir) THEN None ELSE PathOf(ts)
SaveReturn(target, write_ok) == IF target = None \/ ~write_ok THEN None ELSE target

\* mutant: without a saved file the loop is left
AfterSaveGivesUp(raw_path) == IF raw_path = None THEN "post" ELSE "tweak"

\* the statement after the save: the returned path is only logged
AfterSave(raw_path) == "tweak"

\* mutant: the loop is left on any value but None
AfterExtractNotNone(data) == IF data # None THEN "post" ELSE "save"

\* "if data: break"
AfterExtract(data) == IF Truthy(data) THEN "post" ELSE "save"

Exception(name) == [t |-> "exception", v |-> name]

\* mutant: the parsed value is returned without validation
ReturnUnvalidated(data) == IF ~Truthy(data) THEN None ELSE data

\* lines after the loop: no data, or validation, then the value returned
ReturnValue(data) ==
    IF ~Truthy(data) THEN None
    ELSE LET v == validate_response_data(data) IN
         CASE v = "True" -> data
           [] v = "False" -> None
           [] OTHER -> Exception(v)

\* mutant: only lookup and value errors are caught
CatchLookupErrors(outcome) ==
    IF outcome.t = "exception" /\ outcome.v \in {"KeyError", "ValueError"}
    THEN None ELSE outcome

\* "except Exception: return None" around the whole body
Catch(outcome) == IF outcome.t = "exception" THEN None ELSE outcome

----------------------------------------------------------------------------
(* State *)

\* what is recorded of one model call: what the model did, the response
\* text, whether it is usable, what the extractor makes of it and what the
\* validator says of that
Reading(out) ==
    LET text == _call_model(out)
        e == IF Truthy(text) THEN Extracted(text.v) ELSE [ok |-> FALSE, val |-> None]
    IN [out |-> out, text |-> text, usable |-> Truthy(text), ok |-> e.ok, val |-> e.val,
        verdict |-> validate_response_data(e.val)]

VARIABLES
    pc,             \* where generate_daily_content stands
    _raw_dir,       \* self._raw_dir: the diagnostics directory, or None
    theme,          \* local theme
    prompt,         \* local prompt
    attempt,        \* loop variable
    data,           \* local data
    last_raw,       \* local last_raw
    response_text,  \* local response_text
    result,         \* what the caller gets: a value, or an exception
    files,          \* the diagnostics directory: path -> text
    now,            \* the UTC clock, in seconds
    calls,          \* history: the model calls made, in order
    outs,           \* history: the Reading of each call
    steps,          \* history: the steps this invocation has taken
    saves,          \* history: the _save_raw_response calls, in order
    run,            \* 1: first invocation; 2: the same responses replayed
    first           \* the first invocation's calls, responses and result

vars == <<pc, _raw_dir, theme, prompt, attempt, data, last_raw, response_text, result,
          files, now, calls, outs, steps, saves, run, first>>

\* State of the parts around the retry loop: the extractor's local, the
\* configuration, the publisher and main.run.  The retry loop leaves it alone.
VARIABLES
    json_text,        \* local json_text of extract_json_from_response
    origin,           \* history: what the text or value under study was built from
    rotation,         \* config.THEME_ROTATION as loaded
    today,            \* datetime.now().day
    page_id,          \* what create_page / publish_to_notion returns
    exit_code,        \* what main.run returns
    write_json_flag,  \* local write_json_flag of main.run
    trace             \* history: the calls made to the outside, in order

xvars == <<json_text, origin, rotation, today, page_id, exit_code, write_json_flag, trace>>
allvars == <<vars, xvars>>

NoFiles == [p \in {} |-> <<>>]
NoRun == [theme |-> "", outs |-> <<>>, calls |-> <<>>, all_saved |-> TRUE, result |-> None]

\* __init__: the directory is created, or _raw_dir is None
RawDirs == {None, [t |-> "path", v |-> <<"logs/raw_responses">>]}

\* the parts around the loop at rest
XInit ==
    /\ json_text = None
    /\ origin = None
    /\ rotation = THEME_ROTATION
    /\ today = 1
    /\ page_id = None
    /\ exit_code = None
    /\ write_json_flag = FALSE
    /\ trace = <<>>

Init ==
    /\ pc = "start"
    /\ _raw_dir \in RawDirs
    /\ theme = ""
    /\ prompt = <<>>
    /\ attempt = 1
    /\ data = None
    /\ last_raw = None
    /\ response_text = None
    /\ result = None
    /\ files = NoFiles
    /\ now = 0
    /\ calls = <<>>
    /\ outs = <<>>
    /\ steps = 0
    /\ saves = <<>>
    /\ run = 1
    /\ first = NoRun
    /\ XInit

\* The guards of the steps; what follows a guard in its step is assignment.

\* today.day; a replayed invocation runs on a day with the first one's theme
Days == {day \in 1..31 : run = 2 => select_daily_theme(day) = first.theme}
AtStart == pc = "start" /\ Days # {}
AtCall == pc = "call"
\* "if not response_text:" taken, or not
AtNoResponse == pc = "got" /\ ~Truthy(response_text)
AtExtract == pc = "got" /\ Truthy(response_text)
AtSave == pc = "save"
AtTweak == pc = "tweak"
AtPost == pc = "post"

\* theme selection and prompt construction, before the loop
Start ==
    /\ steps' = steps + 1
    /\ AtStart
    /\ \E day \in Days : theme' = select_daily_theme(day)
    /\ prompt' = generate_prompt(theme')
    /\ attempt' = 1
    /\ data' = None
    /\ last_raw' = None
    /\ pc' = "call"
    /\ UNCHANGED <<_raw_dir, response_text, result, files, now, calls, outs, saves, run, first>>
    /\ UNCHANGED xvars

\* one blocking model call, the model answering with one of outcomes; the
\* clock advances while it runs.  A replayed invocation gets the responses
\* of the first one.
Call(outcomes) ==
    /\ steps' = steps + 1
    /\ AtCall
    /\ \E out \in (IF run = 2 /\ attempt <= Len(first.outs)
                   THEN {first.outs[attempt].out} ELSE outcomes) :
          /\ response_text' = _call_model(out)
          /\ outs' = Append(outs, Reading(out))
    /\ \E d \in 0..MaxDelay : now' = now + d
    /\ calls' = Append(calls, [attempt |-> attempt, prompt |-> prompt,
                               temperature |-> Temperature(attempt)])
    /\ pc' = "got"
    /\ UNCHANGED <<_raw_dir, theme, prompt, attempt, data, last_raw, result, files, saves, run, first>>
    /\ UNCHANGED xvars

CallModel == Call(ModelOutcomes)

\* mutant: the attempt without a response reinforces the prompt as well
NoResponseReinforces ==
    /\ steps' = steps + 1
    /\ AtNoResponse
    /\ prompt' = Reinforce(prompt)
    /\ pc' = LoopNext(attempt)
    /\ attempt' = attempt + 1
    /\ UNCHANGED <<_raw_dir, theme, data, last_raw, response_text, result, files, now,
                   calls, outs, saves, run, first>>
    /\ UNCHANGED xvars

\* "if not response_text: continue"
NoResponse ==
    /\ steps' = steps + 1
    /\ AtNoResponse
    /\ pc' = LoopNext(attempt)
    /\ attempt' = attempt + 1
    /\ UNCHANGED <<_raw_dir, theme, prompt, data, last_raw, response_text, result, files, now,
                   calls, outs, saves, run, first>>
    /\ UNCHANGED xvars

\* last_raw, the extraction, and "if data: break"
Extract ==
    /\ steps' = steps + 1
    /\ AtExtract
    /\ last_raw' = response_text
    /\ data' = extract_json_from_response(response_text.v)
    /\ pc' = AfterExtract(data')
    /\ UNCHANGED <<_raw_dir, theme, prompt, attempt, response_text, result, files, now,
                   calls, outs, saves, run, first>>
    /\ UNCHANGED xvars

\* raw_path = self._save_raw_response(response_text)
SaveRaw ==
    /\ steps' = steps + 1
    /\ AtSave
    /\ \E write_ok \in BOOLEAN :
          LET target == SaveTarget(_raw_dir, now)
              raw_path == SaveReturn(target, write_ok)
          IN /\ files' = IF raw_path = None THEN files
                         ELSE [p \in (DOMAIN files) \cup {raw_path} |->
                                 IF p = raw_path THEN response_text.v ELSE files[p]]
             /\ saves' = Append(saves, [attempt |-> attempt, text |-> response_text.v,
                                        raw_path |-> raw_path])
             /\ pc' = AfterSave(raw_path)
    /\ UNCHANGED <<_raw_dir, theme, prompt, attempt, data, last_raw, response_text, result, now,
                   calls, outs, run, first>>
    /\ UNCHANGED xvars

\* the prompt is reinforced and the pass of the loop ends
TweakPrompt ==
    /\ steps' = steps + 1
    /\ AtTweak
    /\ prompt' = Reinforce(prompt)
    /\ pc' = LoopNext(attempt)
    /\ attempt' = attempt + 1
    /\ UNCHANGED <<_raw_dir, theme, data, last_raw, response_text, result, files, now,
                   calls, outs, saves, run, first>>
    /\ UNCHANGED xvars

\* after the loop: the value returned, inside the try/except
Finish ==
    /\ steps' = steps + 1
    /\ AtPost
    /\ result' = Catch(ReturnValue(data))
    /\ pc' = "done"
    /\ UNCHANGED <<_raw_dir, theme, prompt, attempt, data, last_raw, response_text, files, now,
                   calls, outs, saves, run, first>>
    /\ UNCHANGED xvars

\* a second invocation by a new generator in an empty diagnostics
\* directory, to which the model gives the responses it gave the first
Replay ==
    /\ pc = "done"
    /\ run = 1
    /\ first' = [theme |-> theme, outs |-> outs, calls |-> calls,
                 all_saved |-> \A i \in 1..Len(saves) : saves[i].raw_path # None,
                 result |-> result]
    /\ run' = 2
    /\ pc' = "start"
    /\ _raw_dir' \in RawDirs
    /\ theme' = ""
    /\ prompt' = <<>>
    /\ attempt' = 1
    /\ data' = None
    /\ last_raw' = None
    /\ response_text' = None
    /\ result' = None
    /\ files' = NoFiles
    /\ now' = 0
    /\ calls' = <<>>
    /\ outs' = <<>>
    /\ steps' = 0
    /\ saves' = <<>>
    /\ UNCHANGED xvars

Step == Start \/ CallModel \/ NoResponse \/ Extract \/ SaveRaw \/ TweakPrompt \/ Finish

Next == Step \/ Replay

Spec == Init /\ [][Next]_vars

----------------------------------------------------------------------------
(* What the histories say about attempt i of the current invocation *)

Resp(i) == outs[i].text
Usable(i) == outs[i].usable
\* the loop went on after the extraction: no truthy value came out
ExtractionFailed(i) == Usable(i) /\ ~Truthy(outs[i].val)
\* the text did not parse at all
Unparseable(i) == Usable(i) /\ ~outs[i].ok
\* the text parsed and the value fails the schema validator
ParsedInvalid(i) == Usable(i) /\ outs[i].ok /\ outs[i].verdict # "True"
ValidReply(i) == Usable(i) /\ outs[i].ok /\ outs[i].verdict = "True"

Failures(j) == Cardinality({i \in 1..j : ExtractionFailed(i)})
BasePlus(k) == generate_prompt(theme) \o Repeat(Reinforcement, k)
PathsWritten == {saves[i].raw_path : i \in {j \in 1..Len(saves) : saves[j].raw_path # None}}
Schedule == <<"0.7", "0.0", "0.0">>

----------------------------------------------------------------------------
(* C1: generate_daily_content returns None or an object that the schema    *)
(* validator accepts, whatever the model answered; a parsed object that    *)
(* fails validation is never returned.                                     *)
C1_ValidatedOrNone ==
    pc = "done" => (result = None \/ validate_response_data(result) = "True")

C1_Witness ==
    /\ pc = "done"
    /\ Truthy(data)
    /\ validate_response_data(data) = "False"
    /\ result = None

(* C2: a response of attempt 1 or 2 that parses but fails validation is    *)
(* followed by another attempt.  The loop ends on any truthy parsed value  *)
(* and validation happens after it, so this fails.                         *)
C2_InvalidIsRetried ==
    pc = "done" =>
        \A n \in 1..Len(outs) : (n < attempts /\ ParsedInvalid(n)) => Len(calls) >= n + 1

(* C3: three attempts that each return unparseable or schema-invalid text  *)
(* end in None with three diagnostic-write attempts.                       *)
C3_ThreeDiagnosticWrites ==
    (/\ pc = "done"
     /\ Len(outs) = attempts
     /\ \A i \in 1..Len(outs) : Unparseable(i) \/ ParsedInvalid(i))
    => (result = None /\ Len(saves) = attempts)

C5_CallSchedule ==
    /\ [](/\ Len(calls) <= attempts
          /\ \A i \in 1..Len(calls) :
                calls[i].attempt = i /\ calls[i].temperature = Schedule[i])
    /\ [][(pc \in {"post", "done"} /\ run' = run) => (calls' = calls)]_vars

C5_Witness ==
    /\ pc = "done"
    /\ Len(calls) = 3
    /\ outs[1].out = Raises
    /\ ExtractionFailed(2)
    /\ ~Usable(3)

(* C6: an attempt whose model call gives nothing usable (the call raises,  *)
(* no candidate, the empty string) moves to the next attempt and changes   *)
(* neither the prompt, nor last_raw, nor the diagnostic files; it uses up  *)
(* one of the three attempts.                                              *)
C6_NoResponseFrame ==
    [][(pc = "got" /\ ~Truthy(response_text)) =>
          /\ prompt' = prompt
          /\ last_raw' = last_raw
          /\ files' = files
          /\ saves' = saves
          /\ data' = data
          /\ attempt' = attempt + 1
          /\ pc' = IF attempt < attempts THEN "call" ELSE "post"]_vars

C6_Witness ==
    /\ pc = "done"
    /\ Len(outs) = 3
    /\ outs[1].out = Raises /\ outs[2].out = NoCandidate /\ outs[3].out = Reply(<<>>)
    /\ prompt = generate_prompt(theme)
    /\ last_raw = None
    /\ saves = <<>>
    /\ result = None

C8_WritesDoNotSteer ==
    (run = 2 /\ pc = "done") =>
        /\ outs = first.outs
        /\ calls = first.calls
        /\ result = first.result

C8_Witness ==
    /\ run = 2
    /\ pc = "done"
    /\ first.all_saved
    /\ _raw_dir # None
    /\ Len(saves) = 2
    /\ saves[1].raw_path = None
    /\ saves[2].raw_path # None
    /\ result # None

\* the most steps an invocation takes: the start, four per attempt, the end
MaxSteps == 4 * attempts + 2

(* C9: generate_daily_content always ends, with validated content or with  *)
(* None, and no exception leaves it: not when the model call raises or     *)
(* gives no candidate, nor when the text parses to an array, a string, a   *)
(* number or a boolean.  (It ends: before the end the guard of some step  *)
(* holds, and no invocation takes more than MaxSteps steps.)               *)
C9_EndsWithoutException ==
    /\ pc # "done" =>
          AtStart \/ AtCall \/ AtNoResponse \/ AtExtract \/ AtSave \/ AtTweak \/ AtPost
    /\ steps <= MaxSteps
    /\ pc = "done" =>
          /\ result.t # "exception"
          /\ result # None => (result = data /\ validate_response_data(data) = "True")

C9_Witness ==
    /\ pc = "done"
    /\ Truthy(data)
    /\ validate_response_data(data) \in {"TypeError", "AttributeError"}
    /\ result = None

(* C10: every failed extraction whose write succeeds leaves a file of its  *)
(* own holding its raw text, also when two failures fall in one second.    *)
(* The file name has second resolution, so this fails.                     *)
C10_OneFilePerFailure ==
    (pc = "done" /\ \A i \in 1..Len(saves) : saves[i].raw_path # None) =>
        /\ Cardinality(DOMAIN files) = Len(saves)
        /\ \A i \in 1..Len(saves) : files[saves[i].raw_path] = saves[i].text

----------------------------------------------------------------------------
(* extract_json_from_response on its own, statement by statement: the      *)
(* candidate is selected, cleaned, and parsed.  The text it is given is     *)
(* built from an origin, which is kept to state what was put in.            *)

\* the variables of the retry loop that the parts below leave at rest
rest == <<_raw_dir, prompt, attempt, last_raw, files, now, calls, outs, steps, saves, run, first>>

RestInit ==
    /\ _raw_dir = None
    /\ prompt = <<>>
    /\ attempt = 1
    /\ last_raw = None
    /\ files = NoFiles
    /\ now = 0
    /\ calls = <<>>
    /\ outs = <<>>
    /\ steps = 0
    /\ saves = <<>>
    /\ run = 1
    /\ first = NoRun

Str(body) == <<DQ>> \o body \o <<DQ>>
Markers(json) == <<start_marker>> \o json \o <<end_marker>>

\* all sequences over alphabet of length at most n
Texts(alphabet, n) == UNION {[1..k -> alphabet] : k \in 0..n}

\* what stands before and after the markers
Prose == {<<>>, <<"Here", SP>>, <<NL, "{", "Here", "}", NL>>}

\* bodies of JSON string values: none holds a straight quotation mark, a
\* newline or a control character, so each is a well-formed string
StringBodies ==
    { <<>>, <<"Here">>, <<SP>>, <<DOT, DOT>>, <<"}">>,
      <<"Here", DOT, DOT, DOT>>, <<"Here", ELLIPSIS, "json">>,
      <<LDQ, "Here", RDQ>>, <<"Here", RSQ, "json">>, <<LSQ>>,
      <<",", "}">>, <<",", SP, "]">>, <<"{">>, <<"[">>, <<FENCE, "json">> }

\* well-formed JSON texts around a string value
Shapes(body) ==
    { Str(body),
      <<"{">> \o Key("theme") \o Str(body) \o <<"}">>,
      <<"[">> \o Str(body) \o <<",", "1", "]">>,
      <<"{">> \o Key("theme") \o <<"[", "null", ",">> \o Str(body) \o <<"]", "}">> }

WrappedOrigins ==
    { [kind |-> "wrapped", json |-> j, before |-> p, after |-> q] :
        j \in UNION {Shapes(b) : b \in StringBodies}, p \in Prose, q \in Prose }

\* well-formed JSON texts that end in nested closers
Lesson == ValidHead \o ValidTail
Nested ==
    { <<"{">> \o Key("theme") \o <<"{">> \o Key("concept") \o <<"1", "}", "}">>,
      <<"[", "[", "1", "]", "]">>,
      <<"{">> \o Key("theme") \o <<"[", "1", "]", "}">>,
      <<"[", "{">> \o Key("theme") \o <<"1", "}", "]">>,
      <<"{">> \o Key("theme") \o <<"[", "{">> \o Key("concept") \o <<"[", "1", "]", "}", "]", "}">>,
      Lesson }

Closers == {"}", "]"}

\* the number of closing characters the text ends in
RECURSIVE TrailingClosers(_)
TrailingClosers(j) ==
    IF Len(j) > 0 /\ j[Len(j)] \in Closers
    THEN 1 + TrailingClosers(SubSeq(j, 1, Len(j) - 1)) ELSE 0

Placements == {"markers", "bare"}

\* some or all of the closers the text ends in are cut off
TruncatedOrigins ==
    UNION { { [kind |-> "truncated", json |-> j, cut |-> n, placement |-> pl] :
                n \in 1..TrailingClosers(j), pl \in Placements } : j \in Nested }

\* candidate texts to transform: objects, arrays, scalars and two broken texts
Plain ==
    { Lesson,
      <<"{">> \o Key("theme") \o <<DQ, "Here", DQ, "}">>,
      <<"[", DQ, "Here", DQ, ",", "1", "]">>,
      <<"{">> \o Key("theme") \o <<"[", DQ, "Here", DQ, ",", "{">> \o Key("concept") \o <<"1", "}", "]", "}">>,
      <<"{", "}">>,
      <<"[", "]">>,
      <<DQ, "Here", DQ>>,
      <<"1">>,
      <<"{">> \o Key("theme") \o <<DQ, "Here">>,
      <<"{">> \o Key("theme") \o <<"1">> }

\* a markdown code fence around the text, with or without a language tag
FenceWrap(j, tag) == <<FENCE>> \o tag \o <<NL>> \o j \o <<NL, FENCE>>

\* curly quotation marks for the straight ones: opening and closing marks
\* in turn, or the same mark throughout
Curly(j, style) ==
    [i \in 1..Len(j) |->
        IF j[i] # DQ THEN j[i]
        ELSE CASE style = "left" -> LDQ
               [] style = "right" -> RDQ
               [] OTHER -> IF Count(SubSeq(j, 1, i), DQ) % 2 = 1 THEN LDQ ELSE RDQ]

\* one comma, and the white space ws, before the closing character at
\* position at
TrailingComma(j, at, ws) == SubSeq(j, 1, at - 1) \o <<",">> \o ws \o SubSeq(j, at, Len(j))

Transforms(j) ==
    { [name |-> "fence", tag |-> tag] : tag \in {<<>>, <<"json">>} }
    \cup { [name |-> "curly", style |-> st] : st \in {"paired", "left", "right"} }
    \cup { [name |-> "comma", at |-> i, ws |-> ws] :
                i \in {k \in 1..Len(j) : j[k] \in Closers}, ws \in {<<>>, <<NL, SP>>} }

Transformed(j, how) ==
    CASE how.name = "fence" -> FenceWrap(j, how.tag)
      [] how.name = "curly" -> Curly(j, how.style)
      [] how.name = "comma" -> TrailingComma(j, how.at, how.ws)

TransformedOrigins ==
    UNION { { [kind |-> "transformed", json |-> j, how |-> t, placement |-> pl] :
                t \in Transforms(j), pl \in Placements } : j \in Plain }

\* markers and braces in every order
MaxMarks == 4
MarkOrigins ==
    { [kind |-> "marks", text |-> t] :
        t \in Texts({start_marker, end_marker, "{", "}", "1"}, MaxMarks) }

\* dots, ellipsis glyphs and control characters in every order
MaxNoise == 4
NoiseOrigins ==
    { [kind |-> "noise", body |-> w] : w \in Texts({DOT, ELLIPSIS, CTRL}, MaxNoise) }

Origins == WrappedOrigins \cup TruncatedOrigins \cup TransformedOrigins
           \cup MarkOrigins \cup NoiseOrigins

Placed(text, placement) == IF placement = "markers" THEN Wrapped(text) ELSE text

\* the response text built from an origin
TextOf(o) ==
    CASE o.kind = "wrapped" -> o.before \o Markers(o.json) \o o.after
      [] o.kind = "truncated" -> Placed(SubSeq(o.json, 1, Len(o.json) - o.cut), o.placement)
      [] o.kind = "transformed" -> Placed(Transformed(o.json, o.how), o.placement)
      [] o.kind = "marks" -> o.text
      [] o.kind = "noise" -> Wrapped(Str(<<"Here">> \o o.body \o <<"json">>))

ExtractorInit ==
    /\ origin \in Origins
    /\ response_text = JStr(TextOf(origin))
    /\ pc = "x_find"
    /\ json_text = None
    /\ data = None
    /\ result = None
    /\ theme = ""
    /\ trace = <<>>
    /\ rotation = THEME_ROTATION
    /\ today = 1
    /\ page_id = None
    /\ exit_code = None
    /\ write_json_flag = FALSE
    /\ RestInit

\* both finds, the slice between the markers, or the first "{" and the
\* last "}", or "return None"
FindCandidate ==
    /\ pc = "x_find"
    /\ LET c == Candidate(response_text.v) IN
          IF c.found
          THEN /\ json_text' = JStr(c.text)
               /\ pc' = "x_clean"
               /\ UNCHANGED result
          ELSE /\ result' = None
               /\ pc' = "x_done"
               /\ UNCHANGED json_text
    /\ UNCHANGED <<response_text, data, theme, origin, rotation, today, page_id, exit_code,
                   write_json_flag, trace, rest>>

\* json_text = self._clean_json_text(json_text)
CleanText ==
    /\ pc = "x_clean"
    /\ json_text' = JStr(_clean_json_text(json_text.v))
    /\ pc' = "x_parse"
    /\ UNCHANGED <<response_text, data, result, theme, origin, rotation, today, page_id,
                   exit_code, write_json_flag, trace, rest>>

\* data = json.loads(json_text); "return data", or "return None" on
\* JSONDecodeError
ParseText ==
    /\ pc = "x_parse"
    /\ LET r == json_loads(json_text.v) IN
          /\ trace' = Append(trace, [call |-> "json.loads", text |-> json_text.v, ok |-> r.ok])
          /\ data' = IF r.ok THEN r.val ELSE data
          /\ result' = IF r.ok THEN r.val ELSE None
    /\ pc' = "x_done"
    /\ UNCHANGED <<response_text, json_text, theme, origin, rotation, today, page_id,
                   exit_code, write_json_flag, rest>>

ExtractorNext == FindCandidate \/ CleanText \/ ParseText

ExtractorSpec == ExtractorInit /\ [][ExtractorNext]_allvars

\* the step by step extractor returns what the retry loop's extractor does
ExtractorAgrees ==
    pc = "x_done" => result = extract_json_from_response(response_text.v)

----------------------------------------------------------------------------
\* the parse the extractor attempted, if any
Parsed == Len(trace) = 1 /\ trace[1].call = "json.loads"

(* C11: for well-formed JSON between the markers the extractor returns     *)
(* exactly the value strict parsing of that JSON gives, whatever prose     *)
(* surrounds the markers and whatever the string values contain.  The      *)
(* cleaner rewrites the inside of string values too, so this fails.        *)
C11_ExactValue ==
    (pc = "x_done" /\ origin.kind = "wrapped" /\ json_loads(origin.json).ok) =>
        result = json_loads(origin.json).val

(* C12: a well-formed JSON text that lost only closing characters at its   *)
(* end is repaired by the balancing and parses, so the extractor returns   *)
(* a value.  All braces are appended before all brackets, whatever the     *)
(* nesting was, so this fails.                                             *)
C12_TruncationRepaired ==
    (pc = "x_done" /\ origin.kind = "truncated" /\ origin.placement = "markers") =>
        /\ Parsed
        /\ trace[1].ok
        /\ result = json_loads(origin.json).val

(* C13: the extractor returns the same for a candidate JSON text and for   *)
(* that text wrapped in a markdown code fence (with or without a language  *)
(* tag), with curly quotation marks in place of its straight ones, or     *)
(* with one comma inserted before a closing brace or bracket; between the  *)
(* markers or bare.                                                        *)
C13_SameUnderNoise ==
    (pc = "x_done" /\ origin.kind = "transformed") =>
        result = extract_json_from_response(Placed(origin.json, origin.placement))

C13_Witness ==
    /\ pc = "x_done"
    /\ origin.kind = "transformed"
    /\ origin.json = Lesson
    /\ origin.how = [name |-> "curly", style |-> "paired"]
    /\ origin.placement = "markers"
    /\ \E i \in 1..Len(response_text.v) : response_text.v[i] = RDQ
    /\ Parsed
    /\ result = json_loads(Lesson).val
    /\ validate_response_data(result) = "True"

\* where a symbol first and last occurs in the response text
Has(c) == \E i \in 1..Len(response_text.v) : response_text.v[i] = c
FirstAt(c) ==
    CHOOSE i \in 1..Len(response_text.v) :
        response_text.v[i] = c /\ \A j \in 1..(i - 1) : response_text.v[j] # c
LastAt(c) ==
    CHOOSE i \in 1..Len(response_text.v) :
        response_text.v[i] = c /\ \A j \in (i + 1)..Len(response_text.v) : response_text.v[j] # c
BothMarkers == Has(start_marker) /\ Has(end_marker)
\* the text strictly between the first start marker and the first end marker
Between == SubSeq(response_text.v, FirstAt(start_marker) + 1, FirstAt(end_marker) - 1)

(* C14: with both markers in the text the candidate is the text strictly   *)
(* between them (white space around it trimmed) and the brace fallback is  *)
(* not used, also when the end marker comes first or nothing lies between  *)
(* them; with a marker absent the candidate runs from the first "{" to the *)
(* last "}" inclusive; with a marker absent and no "{" or no "}" the       *)
(* extractor returns None at once and json.loads is never called.          *)
C14_CandidateSelection ==
    /\ pc = "x_clean" =>
          IF BothMarkers
          THEN json_text.v = Strip(Between)
          ELSE /\ Has("{") /\ Has("}")
               /\ json_text.v = SubSeq(response_text.v, FirstAt("{"), LastAt("}"))
    /\ pc = "x_done" =>
          IF ~BothMarkers /\ (~Has("{") \/ ~Has("}"))
          THEN trace = <<>> /\ json_text = None /\ result = None
          ELSE Parsed

C14_Witness ==
    /\ pc = "x_done"
    /\ origin.kind = "marks"
    /\ response_text.v = <<end_marker, "{", "}", start_marker>>
    /\ Parsed
    /\ trace[1].text = <<>>
    /\ result = None

----------------------------------------------------------------------------
(* validate_response_data on its own: it is given a parsed value and       *)
(* returns True or False, or raises.                                       *)

Obj1(k, v) == JObj([x \in {<<k>>} |-> v])
Obj2(k1, v1, k2, v2) == JObj([x \in {<<k1>>, <<k2>>} |-> IF x = <<k1>> THEN v1 ELSE v2])

\* a key that the object does not have
Absent == [t |-> "absent"]

\* the object with the keys of the record c whose value is not Absent
MakeObj(c) ==
    JObj([x \in {<<k>> : k \in {n \in DOMAIN c : c[n] # Absent}} |-> c[x[1]]])

Text == JStr(<<"Here">>)
GoodVocab == Obj2("concept", Text, "expressions", JObj(<<>>))
GoodQuiz == Obj2("question", Text, "answer", Text)

ThemeOptions == {Absent, Text, JNum(1), None}
VocabOptions ==
    { Absent, None, Text, JObj(<<>>), GoodVocab, JArr(<<>>),
      JArr(<<GoodVocab>>),
      JArr(<<GoodVocab, Obj2("concept", None, "expressions", None)>>),
      JArr(<<GoodVocab, Obj1("concept", Text)>>),
      JArr(<<Obj1("expressions", JObj(<<>>)), GoodVocab>>),
      JArr(<<GoodVocab, Text>>),
      JArr(<<JArr(<<JStr(<<"concept">>), JStr(<<"expressions">>)>>)>>) }
ScenarioOptions == {Absent, JObj(<<>>), JArr(<<>>), Text, None}
QuizOptions ==
    { Absent, None, Text, JObj(<<>>), GoodQuiz, JArr(<<>>),
      JArr(<<GoodQuiz>>),
      JArr(<<GoodQuiz, Obj1("question", Text)>>),
      JArr(<<Obj1("answer", Text), GoodQuiz>>),
      JArr(<<GoodQuiz, JNum(1)>>),
      JArr(<<JArr(<<JStr(<<"question">>), JStr(<<"answer">>)>>)>>) }

Objects ==
    { MakeObj([theme |-> a, vocabulary_focus |-> b, practice_scenarios |-> c, quiz_toggle |-> d]) :
        a \in ThemeOptions, b \in VocabOptions, c \in ScenarioOptions, d \in QuizOptions }

\* parsed values that are not objects
NonObjects ==
    { None, JBool(TRUE), JBool(FALSE), JNum(0), JNum(1),
      JStr(<<>>), JStr(<<"theme">>), JStr(Join([i \in 1..Len(required_keys) |-> <<required_keys[i], SP>>])),
      JArr(<<>>), JArr(<<JNum(1)>>), JArr(<<JStr(<<"theme">>)>>),
      JArr([i \in 1..Len(required_keys) |-> JStr(<<required_keys[i]>>)]),
      JArr(<<MakeObj([theme |-> Text, vocabulary_focus |-> JArr(<<GoodVocab>>),
                      practice_scenarios |-> JObj(<<>>), quiz_toggle |-> JArr(<<>>)])>>) }

ValidatorInit ==
    /\ data \in Objects \cup NonObjects
    /\ pc = "v_call"
    /\ result = None
    /\ response_text = None
    /\ theme = ""
    /\ XInit
    /\ RestInit

\* the call: what the caller gets is True, False, or the exception
Validate ==
    /\ pc = "v_call"
    /\ LET v == validate_response_data(data) IN
          result' = CASE v = "True" -> JBool(TRUE)
                      [] v = "False" -> JBool(FALSE)
                      [] OTHER -> Exception(v)
    /\ pc' = "v_done"
    /\ UNCHANGED <<data, response_text, theme, xvars, rest>>

ValidatorNext == Validate

ValidatorSpec == ValidatorInit /\ [][ValidatorNext]_allvars

----------------------------------------------------------------------------
\* what the claims say of an object d, in their own words
HasKey(d, k) == d.t = "obj" /\ <<k>> \in DOMAIN d.v
Field(d, k) == d.v[<<k>>]
Accepted(d) ==
    /\ \A i \in 1..Len(required_keys) : HasKey(d, required_keys[i])
    /\ Field(d, "vocabulary_focus").t = "arr"
    /\ Len(Field(d, "vocabulary_focus").v) > 0
    /\ \A i \in 1..Len(Field(d, "vocabulary_focus").v) :
          /\ HasKey(Field(d, "vocabulary_focus").v[i], "concept")
          /\ HasKey(Field(d, "vocabulary_focus").v[i], "expressions")
    /\ Field(d, "quiz_toggle").t = "arr"
    /\ \A i \in 1..Len(Field(d, "quiz_toggle").v) :
          /\ HasKey(Field(d, "quiz_toggle").v[i], "question")
          /\ HasKey(Field(d, "quiz_toggle").v[i], "answer")

\* the object d with another value under the key k
With(d, k, v) == JObj([x \in DOMAIN d.v |-> IF x = <<k>> THEN v ELSE d.v[x]])
OtherValues == NonObjects \cup {JObj(<<>>), GoodVocab, Text}

(* C15: for an object the validator returns True exactly when the four     *)
(* keys are present, vocabulary_focus is a non-empty list of objects that  *)
(* each have concept and expressions, and quiz_toggle is a list, possibly  *)
(* empty, of objects that each have question and answer; it returns False  *)
(* otherwise, and the values under theme and practice_scenarios do not     *)
(* matter.                                                                 *)
C15_ValidatorVerdict ==
    (pc = "v_done" /\ data.t = "obj") =>
        /\ result = JBool(Accepted(data))
        /\ \A k \in {"theme", "practice_scenarios"} :
              HasKey(data, k) =>
                  \A v \in OtherValues :
                      validate_response_data(With(data, k, v)) = validate_response_data(data)

C15_Witness ==
    /\ pc = "v_done"
    /\ data = MakeObj([theme |-> JNum(1), vocabulary_focus |-> JArr(<<GoodVocab>>),
                       practice_scenarios |-> None, quiz_toggle |-> JArr(<<>>)])
    /\ result = JBool(TRUE)

(* C16: the validator gives a verdict for every parsed value: for an       *)
(* array, a string, a number, a boolean or null it returns False and does  *)
(* not raise.  Membership is tested before the type, and a number, a       *)
(* boolean and None have no membership test; an array or string holding    *)
(* the four names passes it and then has no get: so this fails.            *)
C16_FalseForNonObjects ==
    (pc = "v_done" /\ data.t # "obj") => result = JBool(FALSE)

----------------------------------------------------------------------------
(* The theme of the day: configuration loading makes the rotation list     *)
(* from the environment, select_daily_theme indexes it by the day of the   *)
(* month.  A theme code is a text; a known code is the one-symbol text of  *)
(* its name, a label the one-symbol text of the label.                     *)

\* os.getenv: the variable is not set
Unset == [t |-> "unset"]

\* str.split(","): the texts between the commas, empty ones included
RECURSIVE Split(_)
Split(s) ==
    LET c == FindFrom(s, ",", 1) IN
    IF c = 0 THEN <<s>>
    ELSE <<SubSeq(s, 1, c - 1)>> \o Split(SubSeq(s, c + 1, Len(s)))

\* config.THEME_ROTATION from the environment variable THEME_ROTATION
LoadRotation(raw) ==
    LET _themes_raw == IF raw = Unset THEN <<"work", ",", "life", ",", "tech">> ELSE raw.v
        parts == Split(_themes_raw)
        stripped == [i \in 1..Len(parts) |-> Strip(parts[i])]
        kept == SelectSeq(stripped, LAMBDA t : Len(t) > 0)
    IN IF kept = <<>> THEN <<<<"work">>, <<"life">>, <<"tech">>>> ELSE kept

\* mutant: the first day of the month takes the first entry
SelectThemeFromOne(rot, day) ==
    LET theme_index == (day - 1) % Len(rot)
        code == Strip(rot[theme_index + 1])
    IN IF Len(code) = 1 THEN <<theme_mapping(code[1])>> ELSE code

\* select_daily_theme with the rotation list rot on the day day
SelectTheme(rot, day) ==
    LET theme_index == day % Len(rot)
        code == Strip(rot[theme_index + 1])
    IN IF Len(code) = 1 THEN <<theme_mapping(code[1])>> ELSE code

MaxRaw == 4
DaysOfMonth == 1..31
RawRotations ==
    {Unset} \cup {JStr(t) : t \in Texts({"work", "life", "food", ",", SP}, MaxRaw)}

ThemeInit ==
    /\ origin \in {[kind |-> "env", raw |-> r] : r \in RawRotations}
    /\ pc = "t_load"
    /\ rotation = <<>>
    /\ today = 1
    /\ theme = <<>>
    /\ data = None
    /\ result = None
    /\ response_text = None
    /\ json_text = None
    /\ page_id = None
    /\ exit_code = None
    /\ write_json_flag = FALSE
    /\ trace = <<>>
    /\ RestInit

\* import config
LoadConfig ==
    /\ pc = "t_load"
    /\ rotation' = LoadRotation(origin.raw)
    /\ pc' = "t_ready"
    /\ UNCHANGED <<theme, today, origin, data, result, response_text, json_text, page_id,
                   exit_code, write_json_flag, trace, rest>>

\* self.select_daily_theme() on some day of a month
SelectDailyTheme ==
    /\ pc = "t_ready"
    /\ \E day \in DaysOfMonth :
          /\ today' = day
          /\ theme' = SelectTheme(rotation, day)
    /\ pc' = "t_done"
    /\ UNCHANGED <<rotation, origin, data, result, response_text, json_text, page_id,
                   exit_code, write_json_flag, trace, rest>>

ThemeNext == LoadConfig \/ SelectDailyTheme

ThemeSpec == ThemeInit /\ [][ThemeNext]_allvars

\* the label of a code, as the claim gives it
LabelOf(code) ==
    CASE code = <<"work">> -> <<"Office Communication">>
      [] code = <<"life">> -> <<"Daily Life">>
      [] code = <<"tech">> -> <<"Technology & Development">>
      [] OTHER -> code

(* C17: the theme is a function of the day of the month and the rotation   *)
(* list: for every day 1..31 and every list that configuration loading     *)
(* produces, which is never empty, it is the label of the entry at index   *)
(* day mod length (counted from 0), an index within the list; work, life   *)
(* and tech have fixed labels and any other code is returned unchanged;    *)
(* days d and d + length give the same theme.                              *)
C17_ThemeOfDay ==
    /\ pc \in {"t_ready", "t_done"} =>
          /\ Len(rotation) > 0
          /\ \A d \in DaysOfMonth :
                (d + Len(rotation)) \in DaysOfMonth =>
                    SelectTheme(rotation, d) = SelectTheme(rotation, d + Len(rotation))
    /\ pc = "t_done" =>
          /\ (today % Len(rotation)) + 1 \in 1..Len(rotation)
          /\ theme = LabelOf(rotation[(today % Len(rotation)) + 1])

C17_Witness ==
    /\ pc = "t_done"
    /\ origin.raw = JStr(<<"food", ",", SP, "life">>)
    /\ rotation = <<<<"food">>, <<"life">>>>
    /\ today = 31
    /\ theme = <<"Daily Life">>

----------------------------------------------------------------------------
(* The publisher (src/notion_builder.py): create_page builds the title,    *)
(* the properties and the blocks of the page from the content, then makes  *)
(* the one external call, notion.pages.create.  A builder gives the blocks *)
(* it made (their types, in order) or the exception it raises.             *)

Blocks(types) == [t |-> "blocks", v |-> types]
IsException(x) == x.t = "exception"

\* blocks.extend(more), where making either part may have raised
Extend(blocks, more) ==
    IF IsException(blocks) THEN blocks
    ELSE IF IsException(more) THEN more
    ELSE Blocks(blocks.v \o more.v)

\* x.get(key, default) on any value: only a dict has get
PyGet(x, key, default) ==
    IF IsDict(x) THEN Get(x, key, default) ELSE Exception("AttributeError")

\* len(x)
PyLen(x) ==
    CASE x.t \in {"arr", "str"} -> JNum(Len(x.v))
      [] x.t = "obj" -> JNum(Cardinality(DOMAIN x.v))
      [] OTHER -> Exception("TypeError")

\* what "for item in x" goes through: the elements of a list, the
\* characters of a string, the keys of a dict
SeqOfSet(S) == CHOOSE f \in [1..Cardinality(S) -> S] : \A e \in S : \E i \in DOMAIN f : f[i] = e
Iterable(x) == x.t \in {"arr", "str", "obj"}
Iter(x) ==
    CASE x.t = "arr" -> x.v
      [] x.t = "str" -> [i \in 1..Len(x.v) |-> JStr(<<x.v[i]>>)]
      [] x.t = "obj" -> LET keys == SeqOfSet(DOMAIN x.v) IN [i \in 1..Len(keys) |-> JStr(keys[i])]

\* str.lower(), and "a in b" for two strings
LowerSym(c) == IF c = "Here" THEN "here" ELSE c
Lower(x) ==
    IF x.t = "str" THEN JStr([i \in 1..Len(x.v) |-> LowerSym(x.v[i])])
    ELSE Exception("AttributeError")
IsSub(a, b) == \E i \in 0..(Len(b) - Len(a)) : SubSeq(b, i + 1, i + Len(a)) = a

DailyLesson == JStr(<<"Daily Lesson">>)
EmptyStr == JStr(<<>>)

\* always a string: any theme can be formatted
_generate_page_title(content_data) ==
    [t |-> "title", date |-> "today", theme |-> Get(content_data, "theme", DailyLesson)]

\* theme_mapping.get(theme, "Work") hashes the theme; len() of the vocabulary
_build_page_properties(content_data, title) ==
    LET theme_ == Get(content_data, "theme", DailyLesson)
        vocab_count == PyLen(Get(content_data, "vocabulary_focus", JArr(<<>>)))
    IN IF theme_.t \in {"arr", "obj"} THEN Exception("TypeError")
       ELSE IF IsException(vocab_count) THEN vocab_count
       ELSE [t |-> "properties", Title |-> title, VocabularyCount |-> vocab_count.v]

\* the heading and the paragraph, which needs theme.lower()
_build_theme_intro(content_data) ==
    LET theme_ == Get(content_data, "theme", DailyLesson)
        vocab_count == PyLen(Get(content_data, "vocabulary_focus", JArr(<<>>)))
    IN IF IsException(vocab_count) THEN vocab_count
       ELSE IF IsException(Lower(theme_)) THEN Lower(theme_)
       ELSE Blocks(<<"heading_1", "paragraph">>)

\* one paragraph per item: item.get and expressions.get
_build_vocabulary_overview(content_data) ==
    LET vocab_items == Get(content_data, "vocabulary_focus", JArr(<<>>))
        items == Iter(vocab_items)
        ItemOk(item) == IsDict(item) /\ IsDict(Get(item, "expressions", JObj(<<>>)))
    IN IF ~Iterable(vocab_items) THEN Exception("TypeError")
       ELSE IF \E i \in 1..Len(items) : ~ItemOk(items[i]) THEN Exception("AttributeError")
       ELSE Blocks(<<"heading_2">> \o [i \in 1..Len(items) |-> "paragraph"])

\* the inner loop of _find_relevant_vocab: a match, none, or the exception
\* of phrase.lower()
Match == [t |-> "match"]
NoMatch == [t |-> "none"]
RECURSIVE ScanPhrases(_, _, _)
ScanPhrases(concept, phrases, i) ==
    IF i > Len(phrases) THEN NoMatch
    ELSE LET phrase == Lower(phrases[i]) IN
         IF IsException(phrase) THEN phrase
         ELSE IF IsSub(concept.v, phrase.v) \/ IsSub(phrase.v, concept.v) THEN Match
         ELSE ScanPhrases(concept, phrases, i + 1)

\* the outer loop: the vocabulary items found relevant so far
RECURSIVE ScanVocab(_, _, _, _)
ScanVocab(items, key_phrases, i, relevant_vocab) ==
    IF i > Len(items) THEN [t |-> "list", v |-> relevant_vocab]
    ELSE LET concept == PyGet(items[i], "concept", EmptyStr)
             lowered == IF IsException(concept) THEN concept ELSE Lower(concept)
             found == IF IsException(lowered) \/ ~Iterable(key_phrases) THEN NoMatch
                      ELSE ScanPhrases(lowered, Iter(key_phrases), 1)
         IN IF IsException(lowered) THEN lowered
            ELSE IF ~Iterable(key_phrases) THEN Exception("TypeError")
            ELSE IF found = Match
                 THEN ScanVocab(items, key_phrases, i + 1, Append(relevant_vocab, items[i]))
            ELSE IF found = NoMatch THEN ScanVocab(items, key_phrases, i + 1, relevant_vocab)
            ELSE found

Shown == 3

\* the relevant items, or the first three when none is relevant
_find_relevant_vocab(vocab_items, key_phrases) ==
    LET items == Iter(vocab_items)
        scanned == ScanVocab(items, key_phrases, 1, <<>>)
    IN IF IsException(scanned) THEN scanned
       ELSE IF scanned.v = <<>>
            THEN [t |-> "list", v |-> SubSeq(items, 1, IF Len(items) < Shown THEN Len(items) ELSE Shown)]
            ELSE scanned

\* the heading and up to three toggles, nothing without questions
_build_scenario_quiz(content_data, scenario) ==
    LET quiz_items == Get(content_data, "quiz_toggle", JArr(<<>>))
        items == Iter(quiz_items)
        n == IF Len(items) < Shown THEN Len(items) ELSE Shown
    IN IF ~Truthy(quiz_items) THEN Blocks(<<>>)
       ELSE IF quiz_items.t \notin {"arr", "str"} THEN Exception("TypeError")
       ELSE IF \E i \in 1..n : ~IsDict(items[i]) THEN Exception("AttributeError")
       ELSE Blocks(<<"heading_3">> \o [i \in 1..n |-> "toggle"])

\* the quote and the paragraph of one relevant item
PhraseBlocks(vocab) ==
    LET expressions == Get(vocab, "expressions", JObj(<<>>)) IN
    IF ~IsDict(expressions) THEN Exception("AttributeError")
    ELSE Blocks((IF Truthy(Get(expressions, "bm_formal", None)) THEN <<"quote">> ELSE <<>>)
                \o (IF Truthy(Get(expressions, "bm_casual", None)) THEN <<"paragraph">> ELSE <<>>))

RECURSIVE ExtendAll(_, _)
ExtendAll(blocks, parts) ==
    IF parts = <<>> THEN blocks ELSE ExtendAll(Extend(blocks, Head(parts)), Tail(parts))

\* one scenario section: heading, description, key phrases, quiz
_build_scenario_section(content_data, scenario) ==
    LET scenarios == Get(content_data, "practice_scenarios", JObj(<<>>))
        scenario_data == PyGet(scenarios, scenario, JObj(<<>>))
        scenario_desc == PyGet(scenario_data, "scenario", EmptyStr)
        key_phrases == PyGet(scenario_data, "key_phrases", JArr(<<>>))
        relevant_vocab == _find_relevant_vocab(Get(content_data, "vocabulary_focus", JArr(<<>>)),
                                               key_phrases)
        phrases == IF ~Truthy(key_phrases) THEN Blocks(<<>>)
                   ELSE IF IsException(relevant_vocab) THEN relevant_vocab
                   ELSE ExtendAll(Blocks(<<"paragraph">>),
                                  [i \in 1..Len(relevant_vocab.v) |-> PhraseBlocks(relevant_vocab.v[i])])
    IN IF IsException(scenario_data) THEN scenario_data
       ELSE IF IsException(scenario_desc) THEN scenario_desc
       ELSE ExtendAll(Blocks(<<"heading_2">>),
                      << Blocks(IF Truthy(scenario_desc) THEN <<"paragraph">> ELSE <<>>),
                         phrases,
                         _build_scenario_quiz(content_data, scenario) >>)

scenario_order == <<"work", "life", "tech">>

_build_page_blocks(content_data) ==
    ExtendAll(Blocks(<<>>),
              << _build_theme_intro(content_data), _build_vocabulary_overview(content_data) >>
              \o [i \in 1..Len(scenario_order) |->
                    _build_scenario_section(content_data, scenario_order[i])])

\* what create_page has when it reaches the external call, or the
\* exception raised before
Built(content_data) ==
    LET page_title == _generate_page_title(content_data)
        properties == _build_page_properties(content_data, page_title)
        blocks == _build_page_blocks(content_data)
    IN IF IsException(properties) THEN properties
       ELSE IF IsException(blocks) THEN blocks
       ELSE [t |-> "page", properties |-> properties, children |-> blocks.v]

\* contents the validator accepts: it looks at neither the theme, nor the
\* scenarios, nor the values inside the vocabulary items
Phrases(p) == Obj1("key_phrases", p)
PublishThemes == {Text, JStr(<<"Office Communication">>), JNum(1), None, JArr(<<>>)}
PublishVocab ==
    { JArr(<<Obj2("concept", c, "expressions", e)>>) :
        c \in {Text, JNum(1)},
        e \in {JObj(<<>>), Obj2("bm_formal", Text, "en", Text), Text, None} }
    \cup { JArr(<<GoodVocab, Obj2("concept", JStr(<<"json">>), "expressions", Obj1("bm_casual", Text))>>) }
PublishScenarios ==
    { JObj(<<>>),
      Obj1("work", JObj(<<>>)),
      Obj1("work", Obj1("scenario", Text)),
      Obj1("work", Obj2("scenario", Text, "key_phrases", JArr(<<Text>>))),
      Obj1("life", Phrases(JArr(<<JStr(<<"json">>)>>))),
      Obj1("life", Phrases(JArr(<<JStr(<<"theme">>)>>))),
      Obj1("tech", Phrases(JArr(<<JNum(1)>>))),
      Obj1("tech", Phrases(JNum(1))),
      Obj1("work", Text),
      Obj1("work", None),
      JArr(<<>>), JArr(<<Text>>), Text, None, JNum(1) }
PublishQuiz == {JArr(<<>>), JArr(<<GoodQuiz>>), JArr(<<GoodQuiz, GoodQuiz, GoodQuiz, GoodQuiz>>)}

PublishInputs ==
    { d \in { MakeObj([theme |-> a, vocabulary_focus |-> b, practice_scenarios |-> c,
                       quiz_toggle |-> q]) :
                a \in PublishThemes, b \in PublishVocab, c \in PublishScenarios, q \in PublishQuiz } :
        validate_response_data(d) = "True" }

PublisherInit ==
    /\ data \in PublishInputs
    /\ pc = "p_call"
    /\ result = None
    /\ response_text = None
    /\ theme = ""
    /\ XInit
    /\ RestInit

\* create_page(content_data): the page is built and the external call is
\* made, which returns a page or raises; any exception gives None
CreatePage ==
    /\ pc = "p_call"
    /\ LET page == Built(data) IN
          IF IsException(page)
          THEN /\ page_id' = None
               /\ result' = page
               /\ UNCHANGED trace
          ELSE /\ trace' = Append(trace, [call |-> "notion.pages.create", children |-> page.children])
               /\ \E created \in BOOLEAN :
                     page_id' = IF created THEN JStr(<<"page-id">>) ELSE None
               /\ UNCHANGED result
    /\ pc' = "p_done"
    /\ UNCHANGED <<data, response_text, theme, json_text, origin, rotation, today, exit_code,
                   write_json_flag, rest>>

PublisherNext == CreatePage

PublisherSpec == PublisherInit /\ [][PublisherNext]_allvars

\* the content renders when its practice_scenarios is an empty mapping
RendersWithoutScenarios == ~IsException(Built(With(data, "practice_scenarios", JObj(<<>>))))

(* C18: every content the validator accepts is rendered without a hard     *)
(* error: whatever its practice_scenarios is (scenario keys missing,       *)
(* fields missing, not a mapping at all), create_page reaches the external *)
(* page-creation call.  The builder calls get on practice_scenarios and on *)
(* each scenario without checking that they are mappings, so this fails.   *)
C18_ScenariosNeverFail ==
    (pc = "p_done" /\ validate_response_data(data) = "True" /\ RendersWithoutScenarios) =>
        /\ Len(trace) = 1
        /\ trace[1].call = "notion.pages.create"

----------------------------------------------------------------------------
HasThreeDots(s) ==
    \E i \in 1..(Len(s) - 2) : s[i] = DOT /\ s[i + 1] = DOT /\ s[i + 2] = DOT

(* C19: the text that the cleaner hands to the parser holds neither three  *)
(* dots in a row nor the ellipsis glyph, whatever the input.  The dots are *)
(* removed in one pass before the glyph and the control characters, whose  *)
(* removal can bring three dots together, so this fails.                   *)
C19_NoEllipsisLeft ==
    pc = "x_parse" =>
        /\ ~HasThreeDots(json_text.v)
        /\ \A i \in 1..Len(json_text.v) : json_text.v[i] # ELLIPSIS

----------------------------------------------------------------------------
(* main.run: configuration validation, generation, publishing, the         *)
(* optional archive, and the exit code.  generate_content gives None or a  *)
(* content the validator accepts; it and publish_to_notion may also raise  *)
(* when their client is constructed.  A KeyboardInterrupt may arrive at    *)
(* any point before run returns.                                           *)

LessonValue == json_loads(Lesson).val

\* what generate_content can return besides None
RunContents ==
    { LessonValue,
      With(LessonValue, "quiz_toggle", JArr(<<GoodQuiz>>)),
      With(LessonValue, "theme", JStr(<<"Office Communication">>)),
      With(LessonValue, "practice_scenarios", None) }

\* the environment variable WRITE_JSON and "--write-json" in sys.argv
RunOrigins ==
    { [kind |-> "run", WRITE_JSON |-> e, argv |-> a] :
        e \in {Unset, JStr(<<"0">>), JStr(<<"1">>)}, a \in BOOLEAN }

MainInit ==
    /\ origin \in RunOrigins
    /\ pc = "m_config"
    /\ data = None
    /\ result = None
    /\ response_text = None
    /\ theme = ""
    /\ json_text = None
    /\ rotation = THEME_ROTATION
    /\ today = 1
    /\ page_id = None
    /\ exit_code = None
    /\ write_json_flag = FALSE
    /\ trace = <<>>
    /\ RestInit

Called(call, ret) == [call |-> call, ret |-> ret]

\* "return 1"
ReturnOne ==
    /\ exit_code' = 1
    /\ pc' = "m_done"

\* Step 1: if not validate_config(): return 1
ValidateConfig ==
    /\ pc = "m_config"
    /\ \E ok \in BOOLEAN :
          /\ trace' = Append(trace, Called("validate_config", JBool(ok)))
          /\ IF ok THEN pc' = "m_generate" /\ UNCHANGED exit_code ELSE ReturnOne
    /\ UNCHANGED <<data, result, response_text, theme, json_text, origin, rotation, today,
                   page_id, write_json_flag, rest>>

\* Step 2: content_data = generate_content(); if not content_data: return 1
GenerateContent ==
    /\ pc = "m_generate"
    /\ \E ret \in {Exception("Exception"), None} \cup RunContents :
          /\ trace' = Append(trace, Called("generate_content", ret))
          /\ IF IsException(ret)
             THEN ReturnOne /\ UNCHANGED data
             ELSE /\ data' = ret
                  /\ IF Truthy(ret) THEN pc' = "m_publish" /\ UNCHANGED exit_code ELSE ReturnOne
    /\ UNCHANGED <<result, response_text, theme, json_text, origin, rotation, today,
                   page_id, write_json_flag, rest>>

\* publish_to_notion: the builder is constructed, then create_page
PublishOutcomes(content_data) ==
    {Exception("Exception")}
    \cup (IF IsException(Built(content_data)) THEN {None} ELSE {None, JStr(<<"page-id">>)})

\* Step 3: page_id = publish_to_notion(content_data); if not page_id: return 1
PublishToNotion ==
    /\ pc = "m_publish"
    /\ \E ret \in PublishOutcomes(data) :
          /\ trace' = Append(trace, Called("publish_to_notion", ret))
          /\ IF IsException(ret)
             THEN ReturnOne /\ UNCHANGED page_id
             ELSE /\ page_id' = ret
                  /\ IF Truthy(ret) THEN pc' = "m_archive" /\ UNCHANGED exit_code ELSE ReturnOne
    /\ UNCHANGED <<data, result, response_text, theme, json_text, origin, rotation, today,
                   write_json_flag, rest>>

\* os.getenv("WRITE_JSON", "0") == "1", or "--write-json" in sys.argv
WriteJsonFlag(o) == o.WRITE_JSON = JStr(<<"1">>) \/ o.argv

ArchivePath(day) == [t |-> "path", v |-> <<"data/", day, ".json">>]

\* Step 4: the success summary reads theme, vocabulary_focus and quiz_toggle
\* of a content the validator accepted (a dict with two lists), then the
\* flag, then the archive write inside its own try
WriteArchive ==
    /\ pc = "m_archive"
    /\ write_json_flag' = WriteJsonFlag(origin)
    /\ IF write_json_flag' /\ Truthy(data)
       THEN \E write_ok \in BOOLEAN :
               /\ trace' = Append(trace, Called("json.dump", JBool(write_ok)))
               /\ files' = IF write_ok
                           THEN [path \in (DOMAIN files) \cup {ArchivePath(today)} |->
                                   IF path = ArchivePath(today) THEN data ELSE files[path]]
                           ELSE files
       ELSE UNCHANGED <<trace, files>>
    /\ pc' = "m_return"
    /\ UNCHANGED <<data, result, response_text, theme, json_text, origin, rotation, today, page_id,
                   exit_code, _raw_dir, prompt, attempt, last_raw, now, calls, outs, steps, saves,
                   run, first>>

\* the archive write raised and its except clause logged the error
WriteFailed(tr) == Len(tr) > 0 /\ tr[Len(tr)] = Called("json.dump", JBool(FALSE))

\* a failed archive write fails the run
ExitAfterWrite(failed) == IF failed THEN 1 ELSE 0

\* "return 0" at the end of the try block
ExitAtEnd(failed) == 0

Return ==
    /\ pc = "m_return"
    /\ exit_code' = ExitAtEnd(WriteFailed(trace))
    /\ pc' = "m_done"
    /\ UNCHANGED <<data, result, response_text, theme, json_text, origin, rotation, today,
                   page_id, write_json_flag, trace, rest>>

\* except KeyboardInterrupt: return 1
Interrupt ==
    /\ pc \in {"m_config", "m_generate", "m_publish", "m_archive", "m_return"}
    /\ trace' = Append(trace, Called("KeyboardInterrupt", None))
    /\ ReturnOne
    /\ UNCHANGED <<data, result, response_text, theme, json_text, origin, rotation, today,
                   page_id, write_json_flag, rest>>

MainNext ==
    ValidateConfig \/ GenerateContent \/ PublishToNotion \/ WriteArchive \/ Return \/ Interrupt

MainSpec == MainInit /\ [][MainNext]_allvars

CallsOf(name) == {i \in DOMAIN trace : trace[i].call = name}
Returned(i) == ~IsException(trace[i].ret) /\ Truthy(trace[i].ret)
Succeeded(name) == \E i \in CallsOf(name) : Returned(i)
\* every call of name comes directly after a call of before that returned a truthy value
OnlyAfter(name, before) ==
    \A i \in CallsOf(name) : i > 1 /\ trace[i - 1].call = before /\ Returned(i - 1)
AllSucceeded ==
    Succeeded("validate_config") /\ Succeeded("generate_content") /\ Succeeded("publish_to_notion")
Interrupted == CallsOf("KeyboardInterrupt") # {}

StepsGated ==
    /\ OnlyAfter("generate_content", "validate_config")
    /\ OnlyAfter("publish_to_notion", "generate_content")
    /\ OnlyAfter("json.dump", "publish_to_notion")
    /\ CallsOf("json.dump") # {} => write_json_flag /\ WriteJsonFlag(origin) /\ page_id # None
    /\ ArchivePath(today) \in DOMAIN files =>
          /\ Called("json.dump", JBool(TRUE)) \in {trace[i] : i \in DOMAIN trace}
          /\ files[ArchivePath(today)] = data
    /\ \A name \in {"validate_config", "generate_content", "publish_to_notion", "json.dump"} :
          Cardinality(CallsOf(name)) <= 1

\* C20 as stated: in main.run publish_to_notion is called only after
\* generate_content returned content, the archive is written only after
\* publishing returned a page id and only with the write flag set, the exit
\* code is 0 exactly when configuration validation, generation and
\* publishing all succeeded, and a failed archive write leaves the exit code
\* alone.  A KeyboardInterrupt after publishing succeeded gives exit code 1.
C20_ExitCodeAsStated ==
    /\ StepsGated
    /\ pc = "m_done" => (exit_code = 0 <=> AllSucceeded)

\* C20, amended: the steps are gated as stated, and the exit code is 0
\* exactly when configuration validation, generation and publishing all
\* succeeded and no KeyboardInterrupt arrived before run returned; a failed
\* archive write does not change the exit code.
C20_ExitCode ==
    /\ StepsGated
    /\ pc = "m_done" => (exit_code = 0 <=> AllSucceeded /\ ~Interrupted)
    /\ pc = "m_done" /\ WriteFailed(trace) => exit_code = 0

\* a run whose archive write failed and which returned 0
C20_Witness ==
    /\ pc = "m_done"
    /\ WriteFailed(trace)
    /\ write_json_flag
    /\ exit_code = 0

----------------------------------------------------------------------------
(* generate_daily_content on responses that parse to falsy values *)

FalsyCall == Call(FalsyOutcomes)

FalsyNext == Start \/ FalsyCall \/ NoResponse \/ Extract \/ SaveRaw \/ TweakPrompt \/ Finish

FalsySpec == Init /\ [][FalsyNext]_vars

\* json.loads gave a value, and the value is falsy
FalsyParsed(i) == Usable(i) /\ outs[i].ok /\ ~Truthy(outs[i].val)
FalsyValues == {JObj(<<>>), JArr(<<>>), JStr(<<>>), JNum(0), JBool(FALSE), None}

\* the loop is past the "if data: break" of attempt i
PastExtract(i) ==
    \/ Len(outs) > i
    \/ Len(outs) = i /\ pc \in {"save", "tweak", "call", "post", "done"}
PastSave(i) ==
    \/ Len(outs) > i
    \/ Len(outs) = i /\ pc \in {"tweak", "call", "post", "done"}
PastTweak(i) ==
    \/ Len(outs) > i
    \/ Len(outs) = i /\ pc \in {"call", "post", "done"}

\* the prompt in force once attempt i has been dealt with
PromptAfter(i) == IF Len(calls) > i THEN calls[i + 1].prompt ELSE prompt

\* what follows an extraction without a value at attempt i
HandledAsFailure(i) ==
    /\ PastExtract(i) /\ Len(outs) = i => pc # "post" \/ (i = attempts /\ PastTweak(i))
    /\ PastSave(i) =>
          \E k \in DOMAIN saves : saves[k].attempt = i /\ saves[k].text = Resp(i).v
    /\ PastTweak(i) => PromptAfter(i) = Reinforce(calls[i].prompt)
    /\ pc = "done" /\ i < attempts => Len(calls) > i

\* the loop was left by break at the last attempt made
LeftByBreak == Len(outs) > 0 /\ Usable(Len(outs)) /\ Truthy(outs[Len(outs)].val)

(* C21: in generate_daily_content a response that parses to a falsy value  *)
(* ({}, [], "", 0, false, null) is handled like one that does not parse:   *)
(* the loop is not left, a diagnostic write is attempted, the prompt is    *)
(* reinforced and the next of the three attempts is made; the loop is left *)
(* early only on a truthy parsed value, and only such a value is validated *)
(* and can be returned.                                                    *)
C21_FalsyIsFailure ==
    /\ \A i \in 1..Len(outs) : (FalsyParsed(i) \/ Unparseable(i)) => HandledAsFailure(i)
    /\ pc \in {"post", "done"} => (Truthy(data) <=> LeftByBreak)
    /\ pc \in {"post", "done"} /\ Len(calls) < attempts => LeftByBreak
    /\ pc = "done" /\ ~LeftByBreak => result = None
    /\ pc = "done" /\ result # None => LeftByBreak /\ result = outs[Len(outs)].val

\* each falsy value was parsed at the first two attempts, and the third was made
C21_Witness ==
    /\ pc = "done"
    /\ Len(calls) = attempts
    /\ FalsyParsed(1) /\ FalsyParsed(2)
    /\ outs[1].val # outs[2].val
    /\ {outs[1].val, outs[2].val} \subseteq FalsyValues
    /\ Len(saves) >= 2
    /\ ValidReply(3)
    /\ result = outs[3].val

====
